---- MODULE Spec2Model ----
(***************************************************************************)
(* Model of the /digest endpoint of src/main.py (Digest Agent).            *)
(*                                                                         *)
(* Text.  A Python str is a sequence of characters, each character a       *)
(* one-element TLA+ string.  The module is ASCII, so the Japanese          *)
(* characters of the source are written by name:                           *)
(*   "tan" 担   "tou" 当   "ki" 期   "jitsu" 日   "fwcolon" ：(U+FF1A)     *)
(*   "mi" 未   "setsu" 設   "tei" 定                                       *)
(*   "nai" 内  "you" 容   "ki2" 記   "sai" 載                             *)
(*   "na" な   "shi" し   "LF" the newline                                 *)
(* and so are the keys: youten 要点, teian 提案, naiyou 内容, tasuku タスク, *)
(* tantou 担当, kijitsu 期日, memo メモ, bikou 備考.                        *)
(* Fixed texts in which the program never searches (section headers, the   *)
(* prefixes of fault details) are one element each.                        *)
(*                                                                         *)
(* JSON.  A parsed JSON value is a record [t, v]: t is the Python type     *)
(* json.loads gives it, v its content.  A dict is a function over the keys *)
(* the program reads from it (FieldKeys for the reply object, ItemKeys for *)
(* an action item) whose absent keys map to Missing.                       *)
(***************************************************************************)
EXTENDS Naturals, Sequences, FiniteSets

VARIABLES client, pc, reply, content, data, todos_lines, exc, response, round, first

vars == <<client, pc, reply, content, data, todos_lines, exc, response, round, first>>

-----------------------------------------------------------------------------
(* Bounds of the model *)

\* strings are built from at most MaxPieces pieces of Pieces
MaxPieces == 2
\* lists hold at most MaxItems items
MaxItems == 2
\* action-item objects carry at most MaxDictKeys keys
MaxDictKeys == 2
\* lengths of the short non-JSON reply texts
MaxText == 2

\* content[:200]
SnippetLen == 200

-----------------------------------------------------------------------------
(* Python str operations *)

Min(a, b) == IF a < b THEN a ELSE b

IsSpace(c) == c \in {" ", "LF"}

RECURSIVE lstrip(_)
lstrip(s) == IF s # <<>> /\ IsSpace(Head(s)) THEN lstrip(Tail(s)) ELSE s

RECURSIVE rstrip(_)
rstrip(s) == IF s # <<>> /\ IsSpace(s[Len(s)]) THEN rstrip(SubSeq(s, 1, Len(s) - 1)) ELSE s

\* str.strip()
strip(s) == rstrip(lstrip(s))

\* sub in s
Contains(s, sub) ==
  \E i \in 0..(Len(s) - Len(sub)) : SubSeq(s, i + 1, i + Len(sub)) = sub

\* sep.join(parts), parts a sequence of str
RECURSIVE join(_, _)
join(sep, parts) ==
  IF parts = <<>> THEN <<>>
  ELSE IF Len(parts) = 1 THEN parts[1]
  ELSE parts[1] \o sep \o join(sep, Tail(parts))

\* mutant: the slice is one character short
SnippetShort(s) == SubSeq(s, 1, Min(SnippetLen - 1, Len(s)))

\* content[:200]
Snippet(s) == SubSeq(s, 1, Min(SnippetLen, Len(s)))

-----------------------------------------------------------------------------
(* String literals of the source *)

TantouColon   == <<"tan", "tou", ":">>
TantouFw      == <<"tan", "tou", "fwcolon">>
KijitsuColon  == <<"ki", "jitsu", ":">>
KijitsuFw     == <<"ki", "jitsu", "fwcolon">>
Misettei      == <<"mi", "setsu", "tei">>
Sep           == <<" ", "/", " ">>
TantouPrefix  == TantouColon \o <<" ">>
KijitsuPrefix == KijitsuColon \o <<" ">>
AssigneeUnset == Sep \o TantouPrefix \o Misettei
DueUnset      == Sep \o KijitsuPrefix \o Misettei
NaiyouMikisai == <<"nai", "you", "mi", "ki2", "sai">>
Nashi         == <<"-", " ", "na", "shi">>
HeaderYouten  == <<"[youten]", "LF">>
HeaderToDo    == <<"LF", "LF", "[ToDo]", "LF">>
HeaderTeian   == <<"LF", "LF", "[teian]", "LF">>
ConfigDetail  == <<"OPENAI_API_KEY is not set">>
BadJsonPrefix == <<"LLM output is not JSON: ">>
Ellipsis      == <<".", ".", ".">>
FailedPrefix  == <<"Digest failed: ">>

-----------------------------------------------------------------------------
(* JSON values as Python objects *)

FieldKeys == {"youten", "ToDo", "teian"}
ItemKeys == {"naiyou", "tasuku", "task", "title", "tantou", "owner", "assignee",
             "kijitsu", "due", "deadline", "memo", "bikou"}

Missing   == [t |-> "missing", v |-> 0]
Null      == [t |-> "null", v |-> 0]
Num(n)    == [t |-> "num", v |-> n]
Bool(b)   == [t |-> "bool", v |-> b]
Str(s)    == [t |-> "str", v |-> s]
List(xs)  == [t |-> "list", v |-> xs]
Dict(f)   == [t |-> "dict", v |-> f]

\* an action item with the given keys set, and the one with none
ItemOf(f) == Dict([k \in ItemKeys |-> IF k \in DOMAIN f THEN f[k] ELSE Missing])
EmptyDict == Dict([k \in ItemKeys |-> Missing])

\* the reply object with the three keys set (to Missing: absent)
Object(y, t, p) == Dict([k \in FieldKeys |-> IF k = "youten" THEN y ELSE IF k = "ToDo" THEN t ELSE p])

isinstance(x, type) == x.t = type

\* x.get(k): None for an absent key
get(x, k) == IF x.v[k].t = "missing" THEN Null ELSE x.v[k]

\* x.get(k, [])
get_or_empty(x, k) == IF x.v[k].t = "missing" THEN List(<<>>) ELSE x.v[k]

\* truth value of a Python object
Truthy(x) ==
  CASE x.t = "str"  -> x.v # <<>>
    [] x.t = "num"  -> x.v # 0
    [] x.t = "bool" -> x.v
    [] x.t = "list" -> x.v # <<>>
    [] x.t = "dict" -> \E k \in DOMAIN x.v : x.v[k].t # "missing"
    [] OTHER        -> FALSE

\* a or b or ... : the first truthy operand, else the last one
RECURSIVE PyOr(_)
PyOr(xs) == IF Len(xs) = 1 \/ Truthy(Head(xs)) THEN Head(xs) ELSE PyOr(Tail(xs))

\* str(x) and f"{x}", for the scalars and the empty containers
PyStr(x) ==
  CASE x.t = "str"  -> x.v
    [] x.t = "num" /\ x.v = 0 -> <<"0">>
    [] x.t = "num" /\ x.v = 5 -> <<"5">>
    [] x.t = "bool" -> IF x.v THEN <<"T", "r", "u", "e">> ELSE <<"F", "a", "l", "s", "e">>
    [] x.t = "null" -> <<"N", "o", "n", "e">>
    [] x.t = "list" /\ x.v = <<>> -> <<"[", "]">>
    [] x.t = "dict" /\ \A k \in DOMAIN x.v : x.v[k].t = "missing" -> <<"{", "}">>

-----------------------------------------------------------------------------
(* Normalization *)

\* mutant: the filter tests str(x), not str(x).strip()
stripped_unfiltered(v) ==
  LET kept == SelectSeq(v, LAMBDA x : PyStr(x) # <<>>)
  IN [i \in DOMAIN kept |-> Str(strip(PyStr(kept[i])))]

\* [str(x).strip() for x in v if str(x).strip()]
stripped_nonempty(v) ==
  LET stripped == [i \in DOMAIN v |-> Str(strip(PyStr(v[i])))]
  IN SelectSeq(stripped, Truthy)

\* mutant: a bare string is not wrapped, and is iterated character by character
norm_list_unwrapped(d, k) ==
  LET v0 == get_or_empty(d, k)
      v1 == IF isinstance(v0, "str") THEN List([i \in DOMAIN v0.v |-> Str(<<v0.v[i]>>)]) ELSE v0
      v2 == IF ~isinstance(v1, "list") THEN List(<<>>) ELSE v1
  IN List(SelectSeq([i \in DOMAIN v2.v |-> Str(strip(PyStr(v2.v[i])))], Truthy))

\* mutant: a dict is let through, and is iterated key by key
norm_list_dict_keys(d, k) ==
  LET v0 == get_or_empty(d, k)
      v1 == IF isinstance(v0, "str") THEN List(<<v0>>) ELSE v0
      keys == {key \in ItemKeys : v1.v[key].t # "missing"}
      v2 == IF isinstance(v1, "dict")
            THEN List(IF keys = {} THEN <<>> ELSE <<Str(<<CHOOSE key \in keys : TRUE>>)>>)
            ELSE IF ~isinstance(v1, "list") THEN List(<<>>) ELSE v1
  IN List(SelectSeq([i \in DOMAIN v2.v |-> Str(strip(PyStr(v2.v[i])))], Truthy))

\* the body of "for k in (youten, teian)": the new data[k]
norm_list(d, k) ==
  LET v0 == get_or_empty(d, k)
      v1 == IF isinstance(v0, "str") THEN List(<<v0>>) ELSE v0
      v2 == IF ~isinstance(v1, "list") THEN List(<<>>) ELSE v1
  IN List(stripped_nonempty(v2.v))

\* todos_raw, made a list
todos_list(d) ==
  LET v0 == get_or_empty(d, "ToDo")
      v1 == IF isinstance(v0, "str") THEN List(<<v0>>) ELSE v0
      v2 == IF ~isinstance(v1, "list") THEN List(<<>>) ELSE v1
  IN v2.v

\* the outcome of an expression that returns a str or raises TypeError
Returns(s) == [ok |-> TRUE, s |-> s]
TypeError  == [ok |-> FALSE, s |-> <<>>]

\* " / ".join(parts): str.join raises TypeError on an item that is no str
join_objects(parts) ==
  IF \A i \in DOMAIN parts : isinstance(parts[i], "str")
  THEN Returns(join(Sep, [i \in DOMAIN parts |-> parts[i].v]))
  ELSE TypeError

\* to_todo_line, branch "isinstance(x, dict)", lines 113-125
dict_line(x, title0, assignee, due) ==
  LET parts_for_title == SelectSeq(<<get(x, "memo"), get(x, "bikou"), assignee>>, Truthy)
      joined   == join_objects(parts_for_title)
      parts(title) ==
        SelectSeq(<<title,
                    IF Truthy(assignee) THEN Str(TantouPrefix \o PyStr(assignee)) ELSE Null,
                    IF Truthy(due) THEN Str(KijitsuPrefix \o PyStr(due)) ELSE Null>>,
                  Truthy)
  IN IF Truthy(title0) THEN join_objects(parts(title0))
     ELSE IF ~joined.ok THEN TypeError
     ELSE join_objects(parts(Str(IF joined.s # <<>> THEN joined.s ELSE NaiyouMikisai)))

\* mutant: the due date is read from "due" and "deadline" only
todo_line_of_dict_no_kijitsu(x) ==
  dict_line(x,
            PyOr(<<get(x, "naiyou"), get(x, "tasuku"), get(x, "task"), get(x, "title"),
                   Str(<<>>)>>),
            PyOr(<<get(x, "tantou"), get(x, "owner"), get(x, "assignee")>>),
            PyOr(<<get(x, "due"), get(x, "deadline")>>))

\* to_todo_line, branch "isinstance(x, dict)", lines 102-111
todo_line_of_dict(x) ==
  dict_line(x,
            PyOr(<<get(x, "naiyou"), get(x, "tasuku"), get(x, "task"), get(x, "title"),
                   Str(<<>>)>>),
            PyOr(<<get(x, "tantou"), get(x, "owner"), get(x, "assignee")>>),
            PyOr(<<get(x, "kijitsu"), get(x, "due"), get(x, "deadline")>>))

\* mutant: the labels are looked for with the ASCII colon only
todo_line_of_str_ascii(x) ==
  LET s  == strip(PyStr(x))
      s1 == IF ~Contains(s, TantouColon) THEN s \o AssigneeUnset ELSE s
      s2 == IF ~Contains(s1, KijitsuColon) THEN s1 \o DueUnset ELSE s1
  IN IF s = <<>> THEN Returns(<<>>) ELSE Returns(s2)

\* mutant: the labels are looked for with a space before the colon
todo_line_of_str_typo(x) ==
  LET s  == strip(PyStr(x))
      s1 == IF ~Contains(s, <<"tan", "tou", " ", ":">>) THEN s \o AssigneeUnset ELSE s
      s2 == IF ~Contains(s1, <<"ki", "jitsu", " ", ":">>) THEN s1 \o DueUnset ELSE s1
  IN IF s = <<>> THEN Returns(<<>>) ELSE Returns(s2)

\* to_todo_line, the str branch
todo_line_of_str(x) ==
  LET s  == strip(PyStr(x))
      s1 == IF ~Contains(s, TantouColon) /\ ~Contains(s, TantouFw)
            THEN s \o AssigneeUnset ELSE s
      s2 == IF ~Contains(s1, KijitsuColon) /\ ~Contains(s1, KijitsuFw)
            THEN s1 \o DueUnset ELSE s1
  IN IF s = <<>> THEN Returns(<<>>) ELSE Returns(s2)

to_todo_line(x) ==
  IF isinstance(x, "dict") THEN todo_line_of_dict(x) ELSE todo_line_of_str(x)

\* [to_todo_line(x) for x in todos_raw]
todo_results(d) ==
  LET todos_raw == todos_list(d)
  IN [i \in DOMAIN todos_raw |-> to_todo_line(todos_raw[i])]

\* [t for t in todos_lines if t], when no to_todo_line raised
kept_lines(lines) == SelectSeq([i \in DOMAIN lines |-> Str(lines[i].s)], Truthy)

\* mutant: no placeholder for an empty list
bullets_no_placeholder(items) ==
  join(<<"LF">>, [i \in DOMAIN items |-> <<"-", " ">> \o items[i].v])

\* bullets(items), items a list of str objects
bullets(items) ==
  LET text == join(<<"LF">>, [i \in DOMAIN items |-> <<"-", " ">> \o items[i].v])
  IN IF text # <<>> THEN text ELSE Nashi

-----------------------------------------------------------------------------
(* The upstream reply: what client.chat.completions.create does when called *)

\* resp.choices[0].message.content is None, a text that is no JSON, or a
\* text that is JSON, represented by the value json.loads gives for it
NoContent   == [kind |-> "none", text |-> <<>>, doc |-> Null]
Text(s)     == [kind |-> "text", text |-> s, doc |-> Null]
Json(d)     == [kind |-> "json", text |-> <<>>, doc |-> d]
\* the call raises (an openai error, a network error)
CallRaises  == [kind |-> "raise", text |-> <<>>, doc |-> Null]
\* resp.choices is empty
NoChoices   == [kind |-> "nochoices", text |-> <<>>, doc |-> Null]
NoReply     == [kind |-> "unset", text |-> <<>>, doc |-> Null]

\* a text of n characters that is not JSON
NonJsonText(n) == [i \in 1..n |-> IF i % 3 = 1 THEN "n" ELSE IF i % 3 = 2 THEN "o" ELSE "t"]

TextReplies ==
  {Text(NonJsonText(n)) : n \in (0..MaxText) \cup {SnippetLen - 1, SnippetLen, SnippetLen + 1}}

Pieces == {<<"a">>, TantouColon, TantouFw, KijitsuColon, KijitsuFw, <<"tan", "tou">>}

RECURSIVE Concats(_)
Concats(n) ==
  IF n = 0 THEN {<<>>}
  ELSE LET S == Concats(n - 1) IN S \cup {s \o p : s \in S, p \in Pieces}

Strs == {l \o c \o r : l \in {<<>>, <<" ">>}, c \in Concats(MaxPieces), r \in {<<>>, <<"LF">>}}

SmallStrs == {<<" ">>, <<"a">>, <<" ", "a", "LF">>, <<"a">> \o KijitsuColon,
              <<"b">> \o TantouColon \o <<"c">> \o KijitsuFw \o <<"d">>}

Scalars == {Null, Num(0), Num(5), Bool(TRUE), Bool(FALSE)}

SmallDicts ==
  {EmptyDict,
   ItemOf([task |-> Str(<<" ", "a">>), due |-> Str(<<"d">>)]),
   ItemOf([title |-> Num(5)]),
   ItemOf([memo |-> Str(<<"m">>), owner |-> Str(<<"o">>)])}

\* items of a list under key k
RichItems(k) ==
  {Str(s) : s \in Strs} \cup Scalars \cup {List(<<>>), EmptyDict}
  \cup (IF k = "ToDo" THEN SmallDicts ELSE {})

SmallItems(k) ==
  {Str(s) : s \in SmallStrs} \cup {Null, Num(5)}
  \cup (IF k = "ToDo" THEN {ItemOf([task |-> Str(<<"t">>), tantou |-> Str(<<"w">>)])} ELSE {})

RECURSIVE SeqsUpTo(_, _)
SeqsUpTo(S, n) ==
  IF n = 0 THEN {<<>>}
  ELSE LET T == SeqsUpTo(S, n - 1) IN T \cup {Append(t, x) : t \in T, x \in S}

\* the values the upstream may give key k
FieldVals(k) ==
  {Missing, EmptyDict, ItemOf([task |-> Str(<<"a">>)])} \cup Scalars
  \cup {Str(s) : s \in Strs}
  \cup {List(<<x>>) : x \in RichItems(k)}
  \cup {List(xs) : xs \in SeqsUpTo(SmallItems(k), MaxItems)}

\* the plain values of key k: absent, a list of strings to be cleaned, a
\* clean one, and for ToDo an item whose title is a number
PlainVals(k) ==
  {Missing,
   List(<<Str(<<"b">> \o TantouFw \o <<"c">> \o KijitsuColon), Str(<<"LF">>), Str(<<"e", " ">>)>>),
   List(<<Str(<<"f">> \o KijitsuColon \o <<"g">> \o TantouColon \o <<"h">>)>>)}
  \cup (IF k = "ToDo" THEN {List(<<ItemOf([title |-> Num(5)])>>)} ELSE {})

\* the two keys other than k
Others(k) ==
  IF k = "youten" THEN <<"ToDo", "teian">>
  ELSE IF k = "ToDo" THEN <<"youten", "teian">>
  ELSE <<"youten", "ToDo">>

\* the reply object in which key k has value v and the other two keys a and b
ObjectWith(k, v, a, b) ==
  IF k = "youten" THEN Object(v, a, b)
  ELSE IF k = "ToDo" THEN Object(a, v, b)
  ELSE Object(a, b, v)

\* JSON that is no object
OtherDocs == {Null, Num(5), Str(<<"a">>), List(<<>>), List(<<Str(<<"a">>)>>)}

FaultReplies == {CallRaises, NoChoices, NoContent} \cup TextReplies \cup {Json(d) : d \in OtherDocs}

\* action items given as objects
DictVals == {Str(<<>>), Str(<<" ">>), Str(<<"a">>), Str(<<" ", "b">>), Num(5), Null}

RECURSIVE DictsUpTo(_)
DictsUpTo(n) ==
  IF n = 0 THEN {EmptyDict}
  ELSE LET D == DictsUpTo(n - 1)
       IN D \cup {Dict([d.v EXCEPT ![k] = x]) : d \in D, k \in ItemKeys, x \in DictVals}

-----------------------------------------------------------------------------
(* digest(): state *)

\* no exception pending / the exception being raised
NoExc == [type |-> "none", status |-> 0, detail |-> <<>>]
Raised(type) == [type |-> type, status |-> 0, detail |-> <<>>]
HTTPException(status, detail) == [type |-> "HTTPException", status |-> status, detail |-> detail]

\* what the caller gets: nothing yet, the returned dict, an HTTP fault, or an
\* exception that is no HTTPException
NoResponse == [kind |-> "none", status |-> 0, detail |-> <<>>, raw |-> Null, formatted |-> <<>>]
Success(raw, formatted) ==
  [kind |-> "ok", status |-> 200, detail |-> <<>>, raw |-> raw, formatted |-> formatted]
Fault(e) ==
  [kind |-> IF e.type = "HTTPException" THEN "http" ELSE "unhandled",
   status |-> e.status, detail |-> IF e.type = "HTTPException" THEN e.detail ELSE <<e.type>>,
   raw |-> Null, formatted |-> <<>>]

Init ==
  /\ client \in {"None", "OpenAI"}
  /\ pc = "start"
  /\ reply = NoReply
  /\ content = NoContent
  /\ data = Null
  /\ todos_lines = <<>>
  /\ exc = NoExc
  /\ response = NoResponse
  /\ round = 1
  /\ first = [reply |-> NoReply, response |-> NoResponse]

\* lines 33-41: client is None
ConfigFault ==
  /\ pc = "start"
  /\ client = "None"
  /\ response' = Fault(HTTPException(500, ConfigDetail))
  /\ pc' = "done"
  /\ UNCHANGED <<client, reply, content, data, todos_lines, exc, round, first>>

EnterTry ==
  /\ pc = "start"
  /\ client # "None"
  /\ pc' = "call"
  /\ UNCHANGED <<client, reply, content, data, todos_lines, exc, response, round, first>>

\* message.content or "{}"
content_or_empty(r) ==
  IF r.kind = "none" \/ (r.kind = "text" /\ r.text = <<>>) THEN Json(Object(Missing, Missing, Missing)) ELSE r

\* lines 57-67: the call and the read of the reply
Receive(r) ==
  /\ reply' = r
  /\ IF r.kind = "raise"
     THEN exc' = Raised("APIError") /\ pc' = "except" /\ UNCHANGED content
     ELSE IF r.kind = "nochoices"
     THEN exc' = Raised("IndexError") /\ pc' = "except" /\ UNCHANGED content
     ELSE content' = content_or_empty(r) /\ pc' = "parse" /\ UNCHANGED exc

\* the upstream fails, or replies something that is no JSON object
CallUpstreamFault ==
  /\ pc = "call"
  /\ \E r \in FaultReplies : Receive(r)
  /\ UNCHANGED <<client, data, todos_lines, response, round, first>>

\* the upstream replies a JSON object: one key takes any of its values, the
\* other two a plain one
CallUpstream ==
  /\ pc = "call"
  /\ \E k \in FieldKeys : \E v \in FieldVals(k) :
        \E a \in PlainVals(Others(k)[1]) : \E b \in PlainVals(Others(k)[2]) :
          Receive(Json(ObjectWith(k, v, a, b)))
  /\ UNCHANGED <<client, data, todos_lines, response, round, first>>

\* the upstream replies a JSON object whose ToDo is one action item object
CallUpstreamTodo ==
  /\ pc = "call"
  /\ \E x \in DictsUpTo(MaxDictKeys) : \E a \in PlainVals("youten") :
        Receive(Json(Object(a, List(<<x>>), Missing)))
  /\ UNCHANGED <<client, data, todos_lines, response, round, first>>

\* lines 70-76
ParseContent ==
  /\ pc = "parse"
  /\ IF content.kind = "json"
     THEN data' = content.doc /\ pc' = "lists" /\ UNCHANGED exc
     ELSE /\ exc' = HTTPException(502, BadJsonPrefix \o Snippet(content.text) \o Ellipsis)
          /\ pc' = "except"
          /\ UNCHANGED data
  /\ UNCHANGED <<client, reply, content, todos_lines, response, round, first>>

\* lines 79-85; data.get raises AttributeError when data is no dict
NormalizeLists ==
  /\ pc = "lists"
  /\ IF ~isinstance(data, "dict")
     THEN exc' = Raised("AttributeError") /\ pc' = "except" /\ UNCHANGED data
     ELSE /\ data' = Dict([data.v EXCEPT !["youten"] = norm_list(data, "youten"),
                                         !["teian"] = norm_list(data, "teian")])
          /\ pc' = "todo"
          /\ UNCHANGED exc
  /\ UNCHANGED <<client, reply, content, todos_lines, response, round, first>>

\* lines 88-142
NormalizeToDo ==
  /\ pc = "todo"
  /\ LET lines == todo_results(data)
     IN IF \E i \in DOMAIN lines : ~lines[i].ok
        THEN exc' = Raised("TypeError") /\ pc' = "except" /\ UNCHANGED <<data, todos_lines>>
        ELSE /\ todos_lines' = kept_lines(lines)
             /\ data' = Dict([data.v EXCEPT !["ToDo"] = List(kept_lines(lines))])
             /\ pc' = "format"
             /\ UNCHANGED exc
  /\ UNCHANGED <<client, reply, content, response, round, first>>

\* lines 145-158
formatted_text(d, todos) ==
  HeaderYouten \o bullets(d.v["youten"].v) \o HeaderToDo \o bullets(todos)
  \o HeaderTeian \o bullets(d.v["teian"].v)

Return ==
  /\ pc = "format"
  /\ response' = Success(data, formatted_text(data, todos_lines))
  /\ pc' = "done"
  /\ UNCHANGED <<client, reply, content, data, todos_lines, exc, round, first>>

\* lines 160-162: except HTTPException: raise
ReraiseHTTPException ==
  /\ pc = "except"
  /\ exc.type = "HTTPException"
  /\ response' = Fault(exc)
  /\ pc' = "done"
  /\ UNCHANGED <<client, reply, content, data, todos_lines, exc, round, first>>

\* mutant: only the errors of the upstream call are caught
IsUpstreamError(type) == type \in {"APIError", "IndexError"}

\* the exception classes "except Exception" catches
IsException(type) == type \in {"APIError", "IndexError", "AttributeError", "TypeError"}

\* lines 163-165: except Exception as e
CatchException ==
  /\ pc = "except"
  /\ exc.type # "HTTPException"
  /\ response' = IF IsException(exc.type)
                 THEN Fault(HTTPException(500, FailedPrefix \o <<exc.type>>))
                 ELSE Fault(exc)
  /\ pc' = "done"
  /\ UNCHANGED <<client, reply, content, data, todos_lines, exc, round, first>>

\* a second request, to which the upstream replies with the raw of the first
DigestAgain ==
  /\ pc = "done"
  /\ round = 1
  /\ response.kind = "ok"
  /\ first' = [reply |-> reply, response |-> response]
  /\ round' = 2
  /\ Receive(Json(response.raw))
  /\ data' = Null
  /\ todos_lines' = <<>>
  /\ response' = NoResponse
  /\ UNCHANGED client

Steps ==
  \/ ConfigFault
  \/ EnterTry
  \/ ParseContent
  \/ NormalizeLists
  \/ NormalizeToDo
  \/ Return
  \/ ReraiseHTTPException
  \/ CatchException
  \/ DigestAgain

Next == Steps \/ CallUpstreamFault \/ CallUpstream

Spec == Init /\ [][Next]_vars

NextTodo == Steps \/ CallUpstreamFault \/ CallUpstreamTodo

SpecTodo == Init /\ [][NextTodo]_vars

-----------------------------------------------------------------------------
(* Vocabulary of the properties *)

Done      == pc = "done"
Succeeded == pc = "done" /\ response.kind = "ok"

\* the reply was JSON text for an object
ObjectReply == reply.kind = "json" /\ reply.doc.t = "dict"

\* key k of the reply object, and of the returned raw
Upstream(k) == reply.doc.v[k]
Raw(k)      == response.raw.v[k]

IsStrList(x) == x.t = "list" /\ \A i \in DOMAIN x.v : x.v[i].t = "str"

Blank(s)   == \A i \in DOMAIN s : IsSpace(s[i])
Trimmed(s) == s # <<>> /\ ~IsSpace(s[1]) /\ ~IsSpace(s[Len(s)])

HasAssigneeLabel(s) == Contains(s, TantouColon) \/ Contains(s, TantouFw)
HasDueLabel(s)      == Contains(s, KijitsuColon) \/ Contains(s, KijitsuFw)

\* s without the whitespace at its two ends
Trim(s) ==
  LET inner == {i \in DOMAIN s : ~IsSpace(s[i])}
      lo == CHOOSE i \in inner : \A j \in inner : i <= j
      hi == CHOOSE i \in inner : \A j \in inner : j <= i
  IN IF inner = {} THEN <<>> ELSE SubSeq(s, lo, hi)

\* the line of an action item given as the non-blank string s
MarkedLine(s) ==
  Trim(s) \o (IF HasAssigneeLabel(s) THEN <<>> ELSE AssigneeUnset)
          \o (IF HasDueLabel(s) THEN <<>> ELSE DueUnset)

\* the strings of xs that are not blank, in order, each passed through Line
RECURSIVE Cleaned(_, _)
Cleaned(xs, todo) ==
  IF xs = <<>> THEN <<>>
  ELSE (IF Blank(Head(xs).v) THEN <<>>
        ELSE <<Str(IF todo THEN MarkedLine(Head(xs).v) ELSE Trim(Head(xs).v))>>)
       \o Cleaned(Tail(xs), todo)

\* the strings of xs that are not blank, in order, as they are
RECURSIVE NonBlank(_)
NonBlank(xs) ==
  IF xs = <<>> THEN <<>>
  ELSE (IF Blank(Head(xs).v) THEN <<>> ELSE <<Head(xs)>>) \o NonBlank(Tail(xs))

-----------------------------------------------------------------------------
(* C1 *)

\* C1: on every success raw maps each of the three keys to a list whose items
\* are all non-empty strings without leading or trailing whitespace
C1_AllTrimmed ==
  Succeeded =>
    \A k \in FieldKeys :
      /\ IsStrList(Raw(k))
      /\ \A i \in DOMAIN Raw(k).v : Trimmed(Raw(k).v[i].v)

-----------------------------------------------------------------------------
(* C2 *)

IsConfigFault  == response.kind = "http" /\ response.status = 500 /\ response.detail = ConfigDetail
IsMalformed    == response.kind = "http" /\ response.status = 502
IsGenericFault ==
  /\ response.kind = "http" /\ response.status = 500
  /\ response.detail # <<>> /\ <<response.detail[1]>> = FailedPrefix
IsCompleteSuccess ==
  /\ response.kind = "ok"
  /\ \A k \in FieldKeys : IsStrList(Raw(k))
  /\ response.formatted # <<>>

\* C2: a finished call has exactly one of the four outcomes, the configuration
\* fault exactly when client is None; no other exception reaches the caller,
\* and before the call has finished the caller has nothing
C2_FourOutcomes ==
  /\ Done =>
       /\ Cardinality({o \in {"ok", "config", "malformed", "generic"} :
                        \/ o = "ok" /\ IsCompleteSuccess
                        \/ o = "config" /\ IsConfigFault
                        \/ o = "malformed" /\ IsMalformed
                        \/ o = "generic" /\ IsGenericFault}) = 1
       /\ IsConfigFault <=> client = "None"
  /\ ~Done => response = NoResponse

\* an action item object with a number as title has made the call fail with
\* the generic fault
C2_Witness ==
  /\ Done /\ IsGenericFault /\ exc.type = "TypeError"
  /\ ObjectReply /\ Upstream("ToDo").t = "list"
  /\ \E i \in DOMAIN Upstream("ToDo").v :
       Upstream("ToDo").v[i].t = "dict" /\ Upstream("ToDo").v[i].v["title"].t = "num"

-----------------------------------------------------------------------------
(* C3 *)

\* C3: a non-empty reply text that is no JSON ends the call with the 502 fault
\* whose detail contains the first min(200, length) characters of the text
C3_MalformedIs502 ==
  (Done /\ reply.kind = "text" /\ reply.text # <<>>) =>
    /\ IsMalformed
    /\ Contains(response.detail, SubSeq(reply.text, 1, Min(200, Len(reply.text))))

\* a text longer than 200 characters was cut, a shorter one was not
C3_Witness ==
  /\ Done /\ reply.kind = "text" /\ Len(reply.text) > 200
  /\ IsMalformed
  /\ Len(response.detail) = Len(BadJsonPrefix) + 200 + Len(Ellipsis)

-----------------------------------------------------------------------------
(* C4 *)

\* C4 as stated: a key given as a bare string s comes back as the list [s]
C4_BareStringKept ==
  (Succeeded /\ ObjectReply) =>
    \A k \in FieldKeys :
      Upstream(k).t = "str" => Raw(k) = List(<<Upstream(k)>>)

\* C4 amended: a key given as a bare string s comes back as the empty list when
\* s is blank, and else as the one-element list of s trimmed, for ToDo followed
\* by the markers s lacks
C4_BareStringNormalized ==
  (Succeeded /\ ObjectReply) =>
    \A k \in FieldKeys :
      Upstream(k).t = "str" =>
        LET s == Upstream(k).v
        IN Raw(k) = IF Blank(s) THEN List(<<>>)
                    ELSE IF k = "ToDo" THEN List(<<Str(MarkedLine(s))>>)
                    ELSE List(<<Str(Trim(s))>>)

\* a padded bare string under youten was returned trimmed, in a list
C4_Witness ==
  /\ Succeeded /\ ObjectReply
  /\ Upstream("youten") = Str(<<" ", "a", "LF">>)
  /\ Raw("youten") = List(<<Str(<<"a">>)>>)

-----------------------------------------------------------------------------
(* C5 *)

AllStrLists == ObjectReply /\ \A k \in FieldKeys : IsStrList(Upstream(k))

\* C5 as stated: lists of strings come back unchanged but for their blank
\* entries, which are removed
C5_ListsUnchanged ==
  (Succeeded /\ AllStrLists) =>
    \A k \in FieldKeys : Raw(k) = List(NonBlank(Upstream(k).v))

\* C5 amended: lists of strings come back in order with the blank entries
\* removed and every other entry trimmed, under ToDo also followed by the
\* markers it lacks
C5_ListsCleaned ==
  (Succeeded /\ AllStrLists) =>
    \A k \in FieldKeys : Raw(k) = List(Cleaned(Upstream(k).v, k = "ToDo"))

\* three lists, one with a blank entry and a padded one, came back cleaned
C5_Witness ==
  /\ Succeeded /\ AllStrLists
  /\ \E k \in FieldKeys :
       /\ Len(Upstream(k).v) >= 2
       /\ \E i \in DOMAIN Upstream(k).v : Blank(Upstream(k).v[i].v)
       /\ \E i \in DOMAIN Upstream(k).v :
            ~Blank(Upstream(k).v[i].v) /\ ~Trimmed(Upstream(k).v[i].v)
       /\ Len(Raw(k).v) < Len(Upstream(k).v)
  /\ \A k \in FieldKeys : Len(Upstream(k).v) >= 1

-----------------------------------------------------------------------------
(* C6 *)

\* absent, or neither a string nor a list
NoList(x) == x.t \notin {"str", "list"}

\* the reply object with key k an empty list
WithEmpty(d, k) == Dict([d.v EXCEPT ![k] = List(<<>>)])

\* what key k2 of the object d is normalized to
NormalizedField(d, k2) ==
  IF k2 = "ToDo" THEN List(kept_lines(todo_results(d))) ELSE norm_list(d, k2)

\* C6: a key that is absent or neither a string nor a list does not make the
\* call fail and comes back as the empty list; the call ends, and the other
\* two keys come back, as for the same reply with an empty list under that key
C6_WrongTypeIsEmpty ==
  (Done /\ ObjectReply) =>
    \A k \in FieldKeys :
      NoList(Upstream(k)) =>
        LET d == WithEmpty(reply.doc, k)
        IN /\ response.kind = "ok" <=> \A i \in DOMAIN todo_results(d) : todo_results(d)[i].ok
           /\ response.kind # "ok" => IsGenericFault /\ exc.type = "TypeError"
           /\ response.kind = "ok" =>
                /\ Raw(k) = List(<<>>)
                /\ \A k2 \in FieldKeys \ {k} : Raw(k2) = NormalizedField(d, k2)

\* an object under teian, beside non-empty lists under the other two keys
C6_Witness ==
  /\ Succeeded /\ ObjectReply
  /\ Upstream("teian").t = "dict" /\ Truthy(Upstream("teian"))
  /\ Raw("teian") = List(<<>>)
  /\ Raw("youten").v # <<>> /\ Raw("ToDo").v # <<>>

-----------------------------------------------------------------------------
(* C7 *)

-----------------------------------------------------------------------------
(* C8 *)

\* lists of non-empty trimmed strings, the action items with both markers
IsNormalized(d) ==
  /\ d.t = "dict"
  /\ \A k \in FieldKeys :
       /\ IsStrList(d.v[k])
       /\ \A i \in DOMAIN d.v[k].v :
            /\ Trimmed(d.v[k].v[i].v)
            /\ k = "ToDo" => HasAssigneeLabel(d.v[k].v[i].v) /\ HasDueLabel(d.v[k].v[i].v)

\* C8: a reply that is already normalized comes back as raw unchanged, and raw
\* fed back as the reply of a second call gives the same raw and formatted
C8_Idempotent ==
  /\ (Done /\ reply.kind = "json" /\ IsNormalized(reply.doc)) =>
       response.kind = "ok" /\ response.raw = reply.doc
  /\ (Done /\ round = 2 /\ first.reply.kind = "json" /\ IsNormalized(first.reply.doc)) =>
       /\ first.response.raw = first.reply.doc
       /\ response = first.response

\* the second call on a normalized reply with items under all three keys
C8_Witness ==
  /\ Done /\ round = 2 /\ IsNormalized(first.reply.doc)
  /\ \A k \in FieldKeys : first.reply.doc.v[k].v # <<>>
  /\ response.kind = "ok" /\ response.formatted = first.response.formatted

-----------------------------------------------------------------------------
(* C9 *)

\* the first value among keys ks of x that is not empty, None when there is none
RECURSIVE FirstPresent(_, _)
FirstPresent(x, ks) ==
  IF ks = <<>> THEN Null
  ELSE IF Truthy(x.v[Head(ks)]) THEN x.v[Head(ks)]
  ELSE FirstPresent(x, Tail(ks))

\* the values among keys ks of x that are not empty, joined by " / "
RECURSIVE JoinPresent(_)
JoinPresent(xs) ==
  IF xs = <<>> THEN <<>>
  ELSE IF ~Truthy(Head(xs)) THEN JoinPresent(Tail(xs))
  ELSE IF JoinPresent(Tail(xs)) = <<>> THEN PyStr(Head(xs))
  ELSE PyStr(Head(xs)) \o Sep \o JoinPresent(Tail(xs))

ObjectLine(x) ==
  LET title    == FirstPresent(x, <<"naiyou", "tasuku", "task", "title">>)
      assignee == FirstPresent(x, <<"tantou", "owner", "assignee">>)
      due      == FirstPresent(x, <<"kijitsu", "due", "deadline">>)
      notes    == JoinPresent(<<x.v["memo"], x.v["bikou"], assignee>>)
  IN (IF Truthy(title) THEN PyStr(title)
      ELSE IF notes # <<>> THEN notes ELSE NaiyouMikisai)
     \o (IF Truthy(assignee) THEN Sep \o TantouPrefix \o PyStr(assignee) ELSE <<>>)
     \o (IF Truthy(due) THEN Sep \o KijitsuPrefix \o PyStr(due) ELSE <<>>)

-----------------------------------------------------------------------------
(* C10 *)

\* the lines "- <item>" of xs, joined by newlines
RECURSIVE ItemLines(_)
ItemLines(xs) ==
  IF Len(xs) = 1 THEN <<"-", " ">> \o xs[1].v
  ELSE <<"-", " ">> \o xs[1].v \o <<"LF">> \o ItemLines(Tail(xs))

Section(xs) == IF xs = <<>> THEN Nashi ELSE ItemLines(xs)

\* C10: formatted is the three sections youten, ToDo, teian in this order,
\* each its header and then one line "- <item>" per item of the list raw has
\* under that key, or the line "- nashi" when that list is empty
C10_FormattedFromRaw ==
  Succeeded =>
    response.formatted =
      HeaderYouten \o Section(Raw("youten").v)
      \o HeaderToDo \o Section(Raw("ToDo").v)
      \o HeaderTeian \o Section(Raw("teian").v)

\* three empty lists gave the placeholder under each header
C10_Witness ==
  /\ Succeeded
  /\ \A k \in FieldKeys : Raw(k).v = <<>>
  /\ response.formatted = HeaderYouten \o Nashi \o HeaderToDo \o Nashi \o HeaderTeian \o Nashi

====
